---- MODULE Spec2Model ----
(***************************************************************************)
(* Lathe predictive-maintenance API (src/fastapi_backend.py): the read     *)
(* path that turns the most recent records of a MongoDB collection into    *)
(* summaries, details, sensor statistics and product breakdowns.           *)
(*                                                                         *)
(* Numbers are fixed-point: every real quantity is an integer count of     *)
(* hundredths (90.00 is 9000).  A pandas cell or a Python float that may   *)
(* be NaN is a record [nan, v].                                            *)
(***************************************************************************)
EXTENDS Integers, Sequences, FiniteSets, TLC

VARIABLES db, reqs, gen, ui

vars == <<db, reqs, gen, ui>>

----------------------------------------------------------------------------
(* Bounds of the model *)

MaxLen == 3        \* most records in the collection under study
MaxLenConc == 1    \* the same, when two requests are in flight
NumSlots == 2      \* requests that can be in flight together
MaxOlder == 2      \* records older than a full window
MaxRows == 2       \* rows of the base table
MaxRuns == 2       \* calls of upload_to_mongodb

----------------------------------------------------------------------------
(* Program constants *)

Scale == 100               \* hundredths per unit
NumLathes == 4             \* range(1, 5)
SummaryLimit == 50         \* .limit(50)
DetailLimit == 100         \* .limit(100)
OperationalMin == 80       \* avg_health >= 80
WarningMin == 60           \* avg_health >= 60

Lathes == 1..NumLathes
RequestIds == 1..(NumLathes + 1)   \* the ids a caller may ask for: 5 has no collection
Slots == 1..NumSlots

----------------------------------------------------------------------------
(* Floats that may be NaN *)

NaN == [nan |-> TRUE, v |-> 0]
Num(x) == [nan |-> FALSE, v |-> x]

\* Python's < and > on floats: any comparison with NaN is False
Lt(a, b) == ~a.nan /\ ~b.nan /\ a.v < b.v
Gt(a, b) == ~a.nan /\ ~b.nan /\ a.v > b.v

\* round-half-to-even of the rational n/d (d > 0) to an integer
HalfEven(n, d) ==
  LET q == n \div d
      rem == n % d
  IN  IF 2 * rem < d THEN q
      ELSE IF 2 * rem > d THEN q + 1
      ELSE IF q % 2 = 0 THEN q ELSE q + 1

\* round(n/d, ndigits) for a quantity in hundredths, ndigits in {1, 2}
Round(n, d, ndigits) ==
  LET unit == IF ndigits = 1 THEN 10 ELSE 1
  IN  unit * HalfEven(n, d * unit)

\* round(x, ndigits) of a float that may be NaN, x = n/d
RoundF(x, d, ndigits) ==
  IF x.nan THEN NaN ELSE Num(Round(x.v, d, ndigits))

----------------------------------------------------------------------------
(* Stored records *)

Channels == {"Air temperature", "Process temperature", "Rotational speed",
             "Torque", "Tool wear"}

Rec(ts, type, health, failure, air, proc, speed, torque, wear) ==
  [f \in {"timestamp", "Type", "Health score", "Failure"} \cup Channels |->
     CASE f = "timestamp" -> ts
       [] f = "Type" -> type
       [] f = "Health score" -> health * Scale
       [] f = "Failure" -> failure
       [] f = "Air temperature" -> air * Scale
       [] f = "Process temperature" -> proc * Scale
       [] f = "Rotational speed" -> speed * Scale
       [] f = "Torque" -> torque * Scale
       [] f = "Tool wear" -> wear * Scale]

With(r, f, x) == [g \in DOMAIN r \cup {f} |-> IF g = f THEN x ELSE r[g]]

\* the record payloads the store is filled from; timestamp 0 is a placeholder
RecordPool ==
  { With(With(Rec(0, "L", 90, 0, 298, 308, 1600, 42, 20), "Uptime", 80 * Scale),
         "Vibration", 5 * Scale),
    Rec(0, "M", 70, 1, 300, 310, 1500, 40, 100),
    With(With(Rec(0, "L", 50, 1, 306, 314, 1350, 36, 180), "Uptime", 60 * Scale),
         "Vibration", 3 * Scale),
    With(Rec(0, "M", 70, 0, 301, 311, 1400, 38, 90), "Vibration", 7 * Scale) }

\* generate_data stamps record i of a dataset with now - i hours
Stamp(payloads) ==
  [i \in 1..Len(payloads) |->
     [payloads[i] EXCEPT !["timestamp"] = Len(payloads) + 1 - i]]

RECURSIVE SeqsUpTo(_, _)
SeqsUpTo(S, n) ==
  IF n = 0 THEN {<< >>}
  ELSE LET shorter == SeqsUpTo(S, n - 1)
       IN  shorter \cup {Append(s, x) : s \in {t \in shorter : Len(t) = n - 1}, x \in S}

\* a collection is a sequence of documents in natural order
CollectionsUpTo(n) == {Stamp(p) : p \in SeqsUpTo(RecordPool, n)}

\* db.list_collection_names(): db maps the id of each existing collection
\* lathe_m<id> to its documents
list_collection_names(store) == DOMAIN store

----------------------------------------------------------------------------
(* MongoDB cursor: find().sort("timestamp", -1).limit(n) *)

\* The recursions of this module halve their argument, so that a window of
\* 100 records is evaluated at a depth of a few levels.

\* the documents with timestamps in lo..hi, greatest timestamp first and
\* documents of equal timestamp in natural order
RECURSIVE SortRange(_, _, _)
SortRange(docs, lo, hi) ==
  IF lo = hi THEN SelectSeq(docs, LAMBDA d : d["timestamp"] = lo)
  ELSE SortRange(docs, (lo + hi) \div 2 + 1, hi)
         \o SortRange(docs, lo, (lo + hi) \div 2)

SortDesc(docs) ==
  IF docs = << >> THEN << >>
  ELSE LET stamps == {docs[i]["timestamp"] : i \in 1..Len(docs)}
       IN  SortRange(docs, CHOOSE t \in stamps : \A u \in stamps : t <= u,
                           CHOOSE t \in stamps : \A u \in stamps : u <= t)

Limit(docs, n) == SubSeq(docs, 1, IF Len(docs) < n THEN Len(docs) ELSE n)

\* the cursor without its sort: the first n documents in natural order
FindRecent_unsorted(docs, n) == Limit(docs, n)

FindRecent(docs, n) == Limit(SortDesc(docs), n)

----------------------------------------------------------------------------
(* pandas: a DataFrame built from a list of dicts is the list of rows; a   *)
(* key missing from a row is a NaN cell of that column                     *)

Columns(df) == UNION {DOMAIN df[i] : i \in 1..Len(df)}

\* the non-NaN values of column c, in row order
Values(df, c) ==
  LET rows == SelectSeq(df, LAMBDA row : c \in DOMAIN row)
  IN  [i \in 1..Len(rows) |-> rows[i][c]]

\* df[c].tolist(): one float per row, NaN where the key is missing
tolist(df, c) ==
  [i \in 1..Len(df) |-> IF c \in DOMAIN df[i] THEN Num(df[i][c]) ELSE NaN]

RECURSIVE SumSeq(_)
SumSeq(s) ==
  IF s = << >> THEN 0
  ELSE IF Len(s) = 1 THEN s[1]
  ELSE SumSeq(SubSeq(s, 1, Len(s) \div 2))
         + SumSeq(SubSeq(s, Len(s) \div 2 + 1, Len(s)))

\* Series.sum() and Series.mean() skip NaN cells; the mean is the rational
\* ColSum / ColCount
ColSum(df, c) == SumSeq(Values(df, c))
ColCount(df, c) == Len(Values(df, c))

\* round(df[c].mean(), ndigits)
RoundedMean(df, c, ndigits) == Round(ColSum(df, c), ColCount(df, c), ndigits)

\* df["Type"].value_counts().to_dict()
value_counts(df, c) ==
  [t \in {df[i][c] : i \in {j \in 1..Len(df) : c \in DOMAIN df[j]}} |->
     Len(SelectSeq(df, LAMBDA row : c \in DOMAIN row /\ row[c] = t))]

\* df[c].unique(), as the set of keys the loops below insert
unique(df, c) == {df[i][c] : i \in {j \in 1..Len(df) : c \in DOMAIN df[j]}}

\* df[c].unique() as the loops below iterate it: the distinct values in the
\* order of their first appearance
unique_order(df, c) ==
  LET first == SelectSeq([i \in 1..Len(df) |-> i],
                         LAMBDA i : /\ c \in DOMAIN df[i]
                                    /\ \A j \in 1..(i - 1) :
                                         ~(c \in DOMAIN df[j] /\ df[j][c] = df[i][c]))
  IN  [k \in 1..Len(first) |-> df[first[k]][c]]

\* the values in order of first appearance, whatever their counts
value_counts_order_unsorted(df, c) == unique_order(df, c)

\* the index of df[c].value_counts(): the distinct values by descending
\* count; values of equal count stay in order of first appearance
value_counts_order(df, c) ==
  LET u == unique_order(df, c)
      n == value_counts(df, c)
      before(j, k) == n[u[j]] > n[u[k]] \/ (n[u[j]] = n[u[k]] /\ j < k)
  IN  [p \in 1..Len(u) |->
         u[CHOOSE k \in 1..Len(u) :
             Cardinality({j \in 1..Len(u) : before(j, k)}) = p - 1]]

\* df[df[c] == t]
Filter(df, c, t) == SelectSeq(df, LAMBDA row : c \in DOMAIN row /\ row[c] = t)

----------------------------------------------------------------------------
(* Python builtins on lists of floats *)

\* min() and max() keep the first item and replace it by each later item
\* that compares below (above) it.  The first half of rest is scanned before
\* the second; once the kept item is NaN no later item replaces it.
RECURSIVE MinFrom(_, _)
MinFrom(m, rest) ==
  IF rest = << >> THEN m
  ELSE IF Len(rest) = 1 THEN (IF Lt(rest[1], m) THEN rest[1] ELSE m)
  ELSE LET kept == MinFrom(m, SubSeq(rest, 1, Len(rest) \div 2))
       IN  IF kept.nan THEN kept
           ELSE MinFrom(kept, SubSeq(rest, Len(rest) \div 2 + 1, Len(rest)))

RECURSIVE MaxFrom(_, _)
MaxFrom(m, rest) ==
  IF rest = << >> THEN m
  ELSE IF Len(rest) = 1 THEN (IF Gt(rest[1], m) THEN rest[1] ELSE m)
  ELSE LET kept == MaxFrom(m, SubSeq(rest, 1, Len(rest) \div 2))
       IN  IF kept.nan THEN kept
           ELSE MaxFrom(kept, SubSeq(rest, Len(rest) \div 2 + 1, Len(rest)))

py_min(values) == MinFrom(Head(values), Tail(values))
py_max(values) == MaxFrom(Head(values), Tail(values))

\* acc + rest[1] + ... ; a NaN on the way makes the sum NaN
RECURSIVE AddFrom(_, _)
AddFrom(acc, rest) ==
  IF rest = << >> THEN acc
  ELSE IF Len(rest) = 1
       THEN (IF acc.nan \/ rest[1].nan THEN NaN ELSE Num(acc.v + rest[1].v))
  ELSE LET left == AddFrom(acc, SubSeq(rest, 1, Len(rest) \div 2))
       IN  IF left.nan THEN NaN
           ELSE AddFrom(left, SubSeq(rest, Len(rest) \div 2 + 1, Len(rest)))

py_sum(values) == AddFrom(Num(0), values)

----------------------------------------------------------------------------
(* Responses *)

\* Python's None, where a float is optional
None == [none |-> TRUE]

NoResponse == [status |-> 0]
HTTPException(code, msg) == [status |-> code, detail |-> msg]
Ok(body) == [status |-> 200, body |-> body]
\* an exception the handler does not catch (KeyError on a missing column)
InternalError == [status |-> 500]

\* the classifier with the boundaries in the lower bucket
StatusOf_exclusive(sum, n) ==
  IF sum > OperationalMin * Scale * n THEN "Operational"
  ELSE IF sum > WarningMin * Scale * n THEN "Warning"
  ELSE "Failure"

\* Warning only from a mean of 70
StatusOf_late_warning(sum, n) ==
  IF sum >= OperationalMin * Scale * n THEN "Operational"
  ELSE IF sum >= (WarningMin + 10) * Scale * n THEN "Warning"
  ELSE "Failure"

\* the status bucket of the mean health score sum/n (in hundredths)
StatusOf(sum, n) ==
  IF sum >= OperationalMin * Scale * n THEN "Operational"
  ELSE IF sum >= WarningMin * Scale * n THEN "Warning"
  ELSE "Failure"

\* the uptime mean with a missing value counted as 0
RoundedUptime_missing_as_zero(df) ==
  IF "Uptime" \in Columns(df) THEN Round(ColSum(df, "Uptime"), Len(df), 1) ELSE 0

\* avg_uptime: df["Uptime"].mean() if "Uptime" in df.columns else 0, rounded
RoundedUptime(df) ==
  IF "Uptime" \in Columns(df) THEN RoundedMean(df, "Uptime", 1) ELSE 0

\* the summary with its status taken from the uptime column
LatheSummary_status_of_uptime(i, df) ==
  [lathe_id |-> i,
   health_score |-> RoundedMean(df, "Health score", 1),
   uptime |-> RoundedUptime(df),
   status |-> StatusOf(ColSum(df, "Uptime"), ColCount(df, "Uptime"))]

\* the LatheSummary built by one iteration of the loop of get_all_lathes
LatheSummary(i, df) ==
  [lathe_id |-> i,
   health_score |-> RoundedMean(df, "Health score", 1),
   uptime |-> RoundedUptime(df),
   status |-> StatusOf(ColSum(df, "Health score"), ColCount(df, "Health score"))]

\* data of iteration i of the loop of get_all_lathes
SummaryWindow(store, i) ==
  IF i \in list_collection_names(store)
  THEN FindRecent(store[i], SummaryLimit) ELSE << >>

RECURSIVE SummariesFrom(_, _)
SummariesFrom(store, i) ==
  IF i > NumLathes THEN << >>
  ELSE (IF SummaryWindow(store, i) # << >>
        THEN <<LatheSummary(i, SummaryWindow(store, i))>> ELSE << >>)
       \o SummariesFrom(store, i + 1)

\* GET /lathes
AllLathesResponse(store) ==
  IF \E i \in Lathes : /\ SummaryWindow(store, i) # << >>
                       /\ "Health score" \notin Columns(SummaryWindow(store, i))
  THEN InternalError
  ELSE Ok(SummariesFrom(store, 1))

\* a missing vibration column defaulted to zero
DetailVibration_zero(df) ==
  IF "Vibration" \in Columns(df) THEN Num(RoundedMean(df, "Vibration", 1)) ELSE Num(0)

\* vibration=round(df["Vibration"].mean(), 1) if "Vibration" in df.columns else None
DetailVibration(df) ==
  IF "Vibration" \in Columns(df) THEN Num(RoundedMean(df, "Vibration", 1)) ELSE None

\* GET /lathes/{lathe_id}, once the collection is known to exist
LatheDetails(lathe_id, df) ==
  [lathe_id |-> lathe_id,
   health_score |-> RoundedMean(df, "Health score", 1),
   uptime |-> RoundedUptime(df),
   status |-> StatusOf(ColSum(df, "Health score"), ColCount(df, "Health score")),
   air_temperature |-> RoundedMean(df, "Air temperature", 1),
   process_temperature |-> RoundedMean(df, "Process temperature", 1),
   rotational_speed |-> RoundedMean(df, "Rotational speed", 1),
   torque |-> RoundedMean(df, "Torque", 1),
   tool_wear |-> RoundedMean(df, "Tool wear", 1),
   vibration |-> DetailVibration(df),
   failure_count |-> IF "Failure" \in Columns(df) THEN ColSum(df, "Failure") ELSE 0,
   product_types |-> IF "Type" \in Columns(df) THEN value_counts(df, "Type")
                     ELSE << >>]

\* an empty window answered with a zero-filled detail
LatheDetailsResponse_zero_filled(lathe_id, data) ==
  IF data = << >>
  THEN Ok([lathe_id |-> lathe_id, health_score |-> 0, uptime |-> 0,
           status |-> "Failure", air_temperature |-> 0, process_temperature |-> 0,
           rotational_speed |-> 0, torque |-> 0, tool_wear |-> 0,
           vibration |-> None, failure_count |-> 0, product_types |-> << >>])
  ELSE Ok(LatheDetails(lathe_id, data))

LatheDetailsResponse(lathe_id, data) ==
  IF data = << >> THEN HTTPException(404, "No data found")
  ELSE IF ~({"Health score"} \cup Channels \subseteq Columns(data)) THEN InternalError
  ELSE Ok(LatheDetails(lathe_id, data))

\* the column behind each key of sensor_data
SensorColumn ==
  [k \in {"air_temperature", "process_temperature", "rotational_speed",
          "torque", "tool_wear", "vibration"} |->
     CASE k = "air_temperature" -> "Air temperature"
       [] k = "process_temperature" -> "Process temperature"
       [] k = "rotational_speed" -> "Rotational speed"
       [] k = "torque" -> "Torque"
       [] k = "tool_wear" -> "Tool wear"
       [] k = "vibration" -> "Vibration"]

\* the vibration key added whether or not the column exists
SensorKeys_always(df) == DOMAIN SensorColumn

SensorKeys(df) ==
  (DOMAIN SensorColumn \ {"vibration"})
    \cup (IF "Vibration" \in Columns(df) THEN {"vibration"} ELSE {})

\* min, max and avg of one list of sensor_data
SensorStats(values) ==
  [min |-> RoundF(py_min(values), 1, 2),
   max |-> RoundF(py_max(values), 1, 2),
   avg |-> RoundF(py_sum(values), Len(values), 2)]

\* GET /lathes/{lathe_id}/sensor-data, once the collection is known to exist
LatheSensorData(lathe_id, df) ==
  LET sensor_data == [k \in SensorKeys(df) |-> tolist(df, SensorColumn[k])]
  IN  [lathe_id |-> lathe_id,
       sensor_data |-> sensor_data,
       stats |-> [k \in DOMAIN sensor_data |-> SensorStats(sensor_data[k])]]

LatheSensorDataResponse(lathe_id, data) ==
  IF data = << >> THEN HTTPException(404, "No data found")
  ELSE IF ~(Channels \subseteq Columns(data)) THEN InternalError
  ELSE Ok(LatheSensorData(lathe_id, data))

\* the failure rate taken over all records instead of the records of the type
ProductQuality_overall(df, type_df) ==
  [count |-> Len(type_df),
   failure_rate |-> HalfEven(100 * Scale * ColSum(df, "Failure"),
                             ColCount(df, "Failure")),
   avg_health_score |-> IF "Health score" \in Columns(df)
                        THEN RoundedMean(type_df, "Health score", 2) ELSE 0]

\* one entry of product_quality
ProductQuality(df, type_df) ==
  [count |-> Len(type_df),
   failure_rate |-> HalfEven(100 * Scale * ColSum(type_df, "Failure"),
                             ColCount(type_df, "Failure")),
   avg_health_score |-> IF "Health score" \in Columns(df)
                        THEN RoundedMean(type_df, "Health score", 2) ELSE 0]

\* one entry of params_by_type
ParamsOfType(type_df) ==
  [air_temperature |-> RoundedMean(type_df, "Air temperature", 2),
   process_temperature |-> RoundedMean(type_df, "Process temperature", 2),
   rotational_speed |-> RoundedMean(type_df, "Rotational speed", 2),
   torque |-> RoundedMean(type_df, "Torque", 2),
   tool_wear |-> RoundedMean(type_df, "Tool wear", 2)]

\* GET /lathes/{lathe_id}/product-analysis, once the collection is known to exist
LatheProductAnalysis(lathe_id, df) ==
  [lathe_id |-> lathe_id,
   product_types |-> IF "Type" \in Columns(df) THEN value_counts(df, "Type")
                     ELSE << >>,
   product_quality |->
     IF "Type" \in Columns(df) /\ "Failure" \in Columns(df)
     THEN [t \in unique(df, "Type") |-> ProductQuality(df, Filter(df, "Type", t))]
     ELSE << >>,
   params_by_type |->
     IF "Type" \in Columns(df)
     THEN [t \in unique(df, "Type") |-> ParamsOfType(Filter(df, "Type", t))]
     ELSE << >>,
   \* a dict iterates its keys in insertion order: the order of each mapping
   product_types_order |->
     IF "Type" \in Columns(df) THEN value_counts_order(df, "Type") ELSE << >>,
   product_quality_order |->
     IF "Type" \in Columns(df) /\ "Failure" \in Columns(df)
     THEN unique_order(df, "Type") ELSE << >>,
   params_by_type_order |->
     IF "Type" \in Columns(df) THEN unique_order(df, "Type") ELSE << >>]

\* the breakdown without the no-data check
LatheProductAnalysisResponse_tolerant(lathe_id, data) ==
  Ok(LatheProductAnalysis(lathe_id, data))

LatheProductAnalysisResponse(lathe_id, data) ==
  IF data = << >> THEN HTTPException(404, "No data found")
  ELSE IF "Type" \in Columns(data) /\ ~(Channels \subseteq Columns(data))
  THEN InternalError
  ELSE Ok(LatheProductAnalysis(lathe_id, data))

----------------------------------------------------------------------------
(* The processes around the API, before they have run *)

\* mongodb_data_generator.py has not been started
NotGenerated ==
  [pc |-> "start", datasets |-> << >>, next |-> 1, sent |-> 0, runs |-> 0]

\* st.session_state of a new browser session; nothing has been rendered
\* listed records the lathes shown on the dashboard so far, fetched what
\* get_lathe_details returned to the last run of show_lathe_details
NoSession ==
  [session |-> << >>, page |-> "none", buttons |-> {}, listed |-> {},
   fetched |-> None]

----------------------------------------------------------------------------
(* Requests.  A handler makes two round trips to the store, the listing of *)
(* collection names and the find; other requests may run between them.     *)

Idle == [pc |-> "idle", op |-> "none", lathe_id |-> 0, data |-> << >>,
         response |-> NoResponse]

\* the documents a handler has fetched; product analysis reads them all
Fetch(store, op, lathe_id) ==
  IF lathe_id \notin list_collection_names(store) THEN << >>
  ELSE IF op = "product_analysis" THEN store[lathe_id]
  ELSE FindRecent(store[lathe_id], DetailLimit)

\* an empty fetch answered with a body that carries no aggregate
Respond_zero_filled(op, lathe_id, data) ==
  IF data = << >> THEN Ok([lathe_id |-> lathe_id])
  ELSE CASE op = "details" -> LatheDetailsResponse(lathe_id, data)
         [] op = "sensor_data" -> LatheSensorDataResponse(lathe_id, data)
         [] op = "product_analysis" -> LatheProductAnalysisResponse(lathe_id, data)

Respond(op, lathe_id, data) ==
  CASE op = "details" -> LatheDetailsResponse(lathe_id, data)
    [] op = "sensor_data" -> LatheSensorDataResponse(lathe_id, data)
    [] op = "product_analysis" -> LatheProductAnalysisResponse(lathe_id, data)

\* the whole of get_all_lathes
get_all_lathes(r) ==
  /\ reqs[r].pc = "idle"
  /\ reqs' = [reqs EXCEPT ![r] = [pc |-> "done", op |-> "all_lathes",
                                  lathe_id |-> 0, data |-> << >>,
                                  response |-> AllLathesResponse(db)]]
  /\ UNCHANGED <<db, gen, ui>>

\* an unknown lathe answered with 400 instead of 404
CheckCollection_bad_request(r, op, lathe_id) ==
  /\ reqs[r].pc = "idle"
  /\ reqs' = [reqs EXCEPT ![r] =
       IF lathe_id \notin list_collection_names(db)
       THEN [pc |-> "done", op |-> op, lathe_id |-> lathe_id, data |-> << >>,
             response |-> HTTPException(400, "not found")]
       ELSE [pc |-> "checked", op |-> op, lathe_id |-> lathe_id, data |-> << >>,
             response |-> NoResponse]]
  /\ UNCHANGED <<db, gen, ui>>

\* first round trip of the three per-lathe handlers: the collection must exist
CheckCollection(r, op, lathe_id) ==
  /\ reqs[r].pc = "idle"
  /\ reqs' = [reqs EXCEPT ![r] =
       IF lathe_id \notin list_collection_names(db)
       THEN [pc |-> "done", op |-> op, lathe_id |-> lathe_id, data |-> << >>,
             response |-> HTTPException(404, "not found")]
       ELSE [pc |-> "checked", op |-> op, lathe_id |-> lathe_id, data |-> << >>,
             response |-> NoResponse]]
  /\ UNCHANGED <<db, gen, ui>>

\* the aggregation reading a frame that another request left behind
FetchAndRespond_shared_frame(r, op) ==
  /\ reqs[r].pc = "checked"
  /\ reqs[r].op = op
  /\ LET data == Fetch(db, op, reqs[r].lathe_id)
         left == {q \in Slots \ {r} : reqs[q].pc = "done" /\ reqs[q].data # << >>}
         df == IF left # {} THEN reqs[CHOOSE q \in left : TRUE].data ELSE data
     IN  reqs' = [reqs EXCEPT ![r] = [@ EXCEPT !.pc = "done", !.data = data,
                    !.response = Respond(op, reqs[r].lathe_id, df)]]
  /\ UNCHANGED <<db, gen, ui>>

\* a fetch that removes what it read from the collection
FetchAndRespond_consuming(r, op) ==
  /\ reqs[r].pc = "checked"
  /\ reqs[r].op = op
  /\ LET data == Fetch(db, op, reqs[r].lathe_id)
     IN  reqs' = [reqs EXCEPT ![r] = [@ EXCEPT !.pc = "done", !.data = data,
                    !.response = Respond(op, reqs[r].lathe_id, data)]]
  /\ db' = [i \in DOMAIN db |-> IF i = reqs[r].lathe_id THEN << >> ELSE db[i]]
  /\ UNCHANGED <<gen, ui>>

\* second round trip: fetch, aggregate, answer
FetchAndRespond(r, op) ==
  /\ reqs[r].pc = "checked"
  /\ reqs[r].op = op
  /\ LET data == Fetch(db, op, reqs[r].lathe_id)
     IN  reqs' = [reqs EXCEPT ![r] = [@ EXCEPT !.pc = "done", !.data = data,
                    !.response = Respond(op, reqs[r].lathe_id, data)]]
  /\ UNCHANGED <<db, gen, ui>>

get_lathe_details_check(r) == \E id \in RequestIds : CheckCollection(r, "details", id)
get_lathe_details(r) == FetchAndRespond(r, "details")
get_lathe_sensor_data_check(r) == \E id \in RequestIds : CheckCollection(r, "sensor_data", id)
get_lathe_sensor_data(r) == FetchAndRespond(r, "sensor_data")
get_lathe_product_analysis_check(r) ==
  \E id \in RequestIds : CheckCollection(r, "product_analysis", id)
get_lathe_product_analysis(r) == FetchAndRespond(r, "product_analysis")

\* the response has been sent; the worker takes the next request
Return(r) ==
  /\ reqs[r].pc = "done"
  /\ reqs' = [reqs EXCEPT ![r] = Idle]
  /\ UNCHANGED <<db, gen, ui>>

Handle(r) ==
  \/ get_all_lathes(r)
  \/ get_lathe_details_check(r)
  \/ get_lathe_details(r)
  \/ get_lathe_sensor_data_check(r)
  \/ get_lathe_sensor_data(r)
  \/ get_lathe_product_analysis_check(r)
  \/ get_lathe_product_analysis(r)
  \/ Return(r)

\* what the other collections hold while one is under study
Background == {<< >>, Stamp(<<CHOOSE p \in RecordPool : "Uptime" \in DOMAIN p /\ p["Failure"] = 0>>)}

StoresUpTo(n) ==
  {[i \in others \cup {m} |-> IF i = m THEN c ELSE bg[i]] :
     m \in Lathes, c \in CollectionsUpTo(n),
     others \in SUBSET Lathes, bg \in [Lathes -> Background]}

\* one request at a time against any store
Init ==
  /\ db \in StoresUpTo(MaxLen)
  /\ reqs = [r \in Slots |-> Idle]
  /\ gen = NotGenerated
  /\ ui = NoSession

Next == Handle(1)

Spec == Init /\ [][Next]_vars

\* NumSlots requests in flight against a small store: at most one collection
\* holds records
ConcStores ==
  {[i \in others \cup {m} |-> IF i = m THEN c ELSE << >>] :
     m \in Lathes, c \in CollectionsUpTo(MaxLenConc), others \in SUBSET Lathes}

InitConc ==
  /\ db \in ConcStores
  /\ reqs = [r \in Slots |-> Idle]
  /\ gen = NotGenerated
  /\ ui = NoSession

NextConc == \E r \in Slots : Handle(r)

SpecConc == InitConc /\ [][NextConc]_vars

\* collections as long as a window or longer: a full window of one payload on
\* top of up to MaxOlder older records of another, inserted newest first (as
\* generate_data orders a dataset) or oldest first (as records arrive in
\* time), a window whose oldest record is of another payload, and a detail
\* window whose older half is of another payload
Repeat(x, n) == [i \in 1..n |-> x]

Reverse(docs) == [i \in 1..Len(docs) |-> docs[Len(docs) + 1 - i]]

LongCollections ==
  UNION {{Stamp(Repeat(recent, full) \o Repeat(old, k)),
          Reverse(Stamp(Repeat(recent, full) \o Repeat(old, k))),
          Stamp(Repeat(recent, full - 1) \o <<old>>),
          Stamp(Repeat(recent, SummaryLimit) \o Repeat(old, DetailLimit - SummaryLimit))} :
           recent \in RecordPool, old \in RecordPool,
           full \in {SummaryLimit, DetailLimit}, k \in 0..MaxOlder}

\* one request at a time against a store whose lathe 1 has a long history
InitWindow ==
  /\ db \in {[i \in {1} |-> c] : c \in LongCollections}
  /\ reqs = [r \in Slots |-> Idle]
  /\ gen = NotGenerated
  /\ ui = NoSession

SpecWindow == InitWindow /\ [][Next]_vars

----------------------------------------------------------------------------
(* mongodb_data_generator.py: generate_data *)

\* the four machine states, in the order the datasets are built and uploaded
StateNames == <<"very_good", "good", "ok", "very_bad">>

\* two states mapped to machine 3, none to machine 2
lathe_ids_clash == [very_good |-> 1, good |-> 3, ok |-> 3, very_bad |-> 4]

lathe_ids == [very_good |-> 1, good |-> 3, ok |-> 2, very_bad |-> 4]

\* weights, in hundredths
weights == [temp |-> 20, speed |-> 25, torque |-> 25, wear |-> 30]

\* shifts: additive ones in units, multiplicative ones in hundredths
shifts ==
  [very_good |-> [air_temp |-> -3, proc_temp |-> -2, speed_pct |-> 105,
                  torque_pct |-> 105, wear_pct |-> 90],
   good |-> [air_temp |-> 0, proc_temp |-> 0, speed_pct |-> 100,
             torque_pct |-> 100, wear_pct |-> 100],
   ok |-> [air_temp |-> 3, proc_temp |-> 2, speed_pct |-> 95,
           torque_pct |-> 95, wear_pct |-> 110],
   very_bad |-> [air_temp |-> 6, proc_temp |-> 4, speed_pct |-> 90,
                 torque_pct |-> 90, wear_pct |-> 120]]

\* one row of df_base
Reading(type, air, proc, speed, torque, wear) ==
  [f \in {"Type"} \cup Channels |->
     CASE f = "Type" -> type
       [] f = "Air temperature" -> air * Scale
       [] f = "Process temperature" -> proc * Scale
       [] f = "Rotational speed" -> speed * Scale
       [] f = "Torque" -> torque * Scale
       [] f = "Tool wear" -> wear * Scale]

\* rows of the base table: a new tool, a nominal row, a hot slow worn one and
\* a cold fast one
ReadingPool ==
  <<Reading("L", 298, 308, 1600, 42, 0),
    Reading("M", 300, 310, 1500, 40, 100),
    Reading("H", 312, 320, 1200, 20, 250),
    Reading("L", 280, 290, 2000, 60, 200)>>

\* what the random number generators return for one row: the Failure draw
\* where both outcomes have positive probability, the uniform draw of [0, 20),
\* the skewed noise added to each feature and the noise of vib_raw
DrawPool ==
  <<[failure |-> 0, u |-> 0, skew |-> 0, vib |-> -150],
    [failure |-> 1, u |-> 20 * Scale - 1, skew |-> 5 * Scale, vib |-> 150],
    [failure |-> 1, u |-> 0, skew |-> -5 * Scale, vib |-> 50],
    [failure |-> 0, u |-> 20 * Scale - 1, skew |-> 40 * Scale, vib |-> -50]>>

Abs(x) == IF x < 0 THEN -x ELSE x

\* Series.clip(lo, hi)
clip_none(x, lo, hi) == x

clip(x, lo, hi) == IF x < lo THEN lo ELSE IF x > hi THEN hi ELSE x

MaxOf(s) == CHOOSE x \in {s[i] : i \in 1..Len(s)} : \A i \in 1..Len(s) : s[i] <= x
MinOf(s) == CHOOSE x \in {s[i] : i \in 1..Len(s)} : \A i \in 1..Len(s) : x <= s[i]

nominal(df_base) ==
  [speed |-> ColSum(df_base, "Rotational speed") \div Len(df_base),
   torque |-> ColSum(df_base, "Torque") \div Len(df_base),
   wear_max |-> MaxOf(Values(df_base, "Tool wear")),
   temp_shift |-> 10 * Scale]

\* the sub-scores, in hundredths
h_temp(row, nom) ==
  Scale - clip((Abs(row["Air temperature"] - 300 * Scale) * Scale) \div nom.temp_shift,
               0, Scale)
h_speed(row, nom) == clip((row["Rotational speed"] * Scale) \div nom.speed, 0, Scale)
h_torque(row, nom) == clip((row["Torque"] * Scale) \div nom.torque, 0, Scale)
h_wear(row, nom) == clip(Scale - (row["Tool wear"] * Scale) \div nom.wear_max, 0, Scale)

HealthScore(row, nom) ==
  (100 * (weights.temp * h_temp(row, nom) + weights.speed * h_speed(row, nom)
          + weights.torque * h_torque(row, nom) + weights.wear * h_wear(row, nom)))
    \div Scale

Uptime(failure, u) ==
  100 * Scale - 10 * Scale * failure - (u * (failure * 80 + 20)) \div Scale

vib_raw(d, draw) ==
  [i \in 1..Len(d) |->
     (60 * d[i]["Torque"] + 40 * d[i]["Tool wear"]) \div Scale + draw[i].vib]

\* enrich(df): Vibration, Health score, Failure and Uptime of each row
enrich(d, nom, draw) ==
  LET raw == vib_raw(d, draw)
  IN  [i \in 1..Len(d) |->
         [f \in DOMAIN d[i] \cup {"Vibration", "Health score", "Failure", "Uptime"} |->
            CASE f = "Vibration" ->
                   (100 * Scale * (raw[i] - MinOf(raw))) \div (MaxOf(raw) - MinOf(raw))
              [] f = "Health score" -> HealthScore(d[i], nom)
              [] f = "Failure" -> draw[i].failure
              [] f = "Uptime" -> Uptime(draw[i].failure, draw[i].u)
              [] OTHER -> d[i][f]]]

\* build(state): the base rows shifted, with skewed noise, enriched
build(state, df_base, draw) ==
  LET s == shifts[state]
      d == [i \in 1..Len(df_base) |->
              [f \in DOMAIN df_base[i] |->
                 CASE f = "Air temperature" ->
                        df_base[i][f] + s.air_temp * Scale + draw[i].skew
                   [] f = "Process temperature" ->
                        df_base[i][f] + s.proc_temp * Scale + draw[i].skew
                   [] f = "Rotational speed" ->
                        (df_base[i][f] * s.speed_pct) \div Scale + draw[i].skew
                   [] f = "Torque" ->
                        (df_base[i][f] * s.torque_pct) \div Scale + draw[i].skew
                   [] f = "Tool wear" ->
                        (df_base[i][f] * s.wear_pct) \div Scale + draw[i].skew
                   [] OTHER -> df_base[i][f]]]
  IN  enrich(d, nominal(df_base), draw)

\* final_datasets: each dataset with its LatheID and its timestamps
final_datasets(df_base, draws) ==
  [state \in DOMAIN lathe_ids |->
     Stamp([i \in 1..Len(df_base) |->
              With(With(build(state, df_base, draws[state])[i],
                        "LatheID", lathe_ids[state]), "timestamp", 0)])]

\* wear_max = 0 makes h_wear 0/0 = NaN in enrich(df_base), p_fail NaN, and
\* np.random.binomial raises: no dataset is produced
Degenerate(df_base) == nominal(df_base).wear_max = 0

\* the noise of vib_raw is continuous: the rows of a table differ in vib_raw
Drawable(df_base, draws) ==
  \A st \in DOMAIN lathe_ids :
    LET raw == vib_raw(df_base, draws[st]) IN MaxOf(raw) # MinOf(raw)

\* generate_data(), for the base table and the random draws of one of inputs
generate_data(inputs) ==
  /\ gen.pc = "start"
  /\ \E input \in inputs :
       IF Degenerate(input.df_base)
       THEN gen' = [gen EXCEPT !.pc = "failed"]
       ELSE /\ Drawable(input.df_base, input.draws)
            /\ gen' = [gen EXCEPT !.pc = "generated",
                                  !.datasets = final_datasets(input.df_base, input.draws)]
  /\ UNCHANGED <<db, reqs, ui>>

----------------------------------------------------------------------------
(* mongodb_data_generator.py: upload_to_mongodb *)

\* upload_to_mongodb(datasets, lathe_ids) is entered: the loop starts at the
\* first state.  The script calls it once; a second call with the same
\* datasets is a rerun of the upload.
upload_to_mongodb ==
  /\ gen.pc \in {"generated", "uploaded"}
  /\ gen.runs < MaxRuns
  /\ gen' = [gen EXCEPT !.pc = "drop", !.next = 1, !.runs = gen.runs + 1]
  /\ UNCHANGED <<db, reqs, ui>>

\* the loop without its drop: the collection is kept
drop_collection_skipped ==
  /\ gen.pc = "drop"
  /\ db' = db
  /\ gen' = [gen EXCEPT !.pc = "insert"]
  /\ UNCHANGED <<reqs, ui>>

\* db.drop_collection(collection_name) of the state the loop is at
drop_collection ==
  /\ gen.pc = "drop"
  /\ db' = [i \in DOMAIN db \ {lathe_ids[StateNames[gen.next]]} |-> db[i]]
  /\ gen' = [gen EXCEPT !.pc = "insert"]
  /\ UNCHANGED <<reqs, ui>>

\* collection.insert_many(records): the server adds the documents to the
\* collection one after the other, a reader in between sees those added so
\* far; the first one creates the collection.  This step adds one document.
insert_many ==
  /\ gen.pc = "insert"
  /\ LET lathe_id == lathe_ids[StateNames[gen.next]]
         records == gen.datasets[StateNames[gen.next]]
         document == records[gen.sent + 1]
     IN  /\ db' = [i \in DOMAIN db \cup {lathe_id} |->
                     IF i # lathe_id THEN db[i]
                     ELSE IF i \in DOMAIN db THEN Append(db[i], document)
                     ELSE <<document>>]
         /\ gen' = IF gen.sent + 1 < Len(records)
                   THEN [gen EXCEPT !.sent = gen.sent + 1]
                   ELSE [gen EXCEPT !.sent = 0, !.next = gen.next + 1,
                                    !.pc = IF gen.next = Len(StateNames)
                                           THEN "uploaded" ELSE "drop"]
  /\ UNCHANGED <<reqs, ui>>

----------------------------------------------------------------------------
(* The generator run on its own, and run beside the API *)

\* base tables of two rows or more: the noise scale is the standard deviation
\* of the base table, which one row does not have
Frames(n) == {f \in SeqsUpTo({ReadingPool[i] : i \in DOMAIN ReadingPool}, n) : Len(f) > 1}

\* the draws of the rows of one table: the pool from one of its positions on
DrawVecs(n) ==
  {[i \in 1..n |-> DrawPool[((i + k) % Len(DrawPool)) + 1]] :
     k \in {0, Len(DrawPool) \div 2}}

\* stores the generator may find: nothing, or collections of earlier records
PriorStores ==
  {[i \in ids |-> c] : ids \in {{}, {1}, {1, 2, 3, 4}}, c \in CollectionsUpTo(1)}

InitGen ==
  /\ db \in PriorStores
  /\ reqs = [r \in Slots |-> Idle]
  /\ gen = NotGenerated
  /\ ui = NoSession

Generator(inputs) ==
  \/ generate_data(inputs)
  \/ upload_to_mongodb
  \/ drop_collection
  \/ insert_many

\* a base table with, for each state, the draws of its rows
Inputs(frames) ==
  UNION {{[df_base |-> f, draws |-> d] : d \in [DOMAIN lathe_ids -> DrawVecs(Len(f))]} :
           f \in frames}

GenInputs == Inputs(Frames(MaxRows))

NextGen == Generator(GenInputs)

SpecGen == InitGen /\ [][NextGen]_vars

\* records whose health scores lie within a rounding step of a threshold
NearThresholds ==
  {With(Rec(0, "L", 80, 0, 298, 308, 1600, 42, 20), "Health score", 80 * Scale - 4),
   With(Rec(0, "L", 80, 0, 298, 308, 1600, 42, 20), "Health score", 80 * Scale + 4),
   With(Rec(0, "M", 60, 1, 300, 310, 1500, 40, 100), "Health score", 60 * Scale - 3),
   With(Rec(0, "M", 60, 1, 300, 310, 1500, 40, 100), "Health score", 60 * Scale + 4)}

\* one request at a time against a store whose lathe 1 is near a threshold
InitRound ==
  /\ db \in {[i \in {1} |-> Stamp(p)] : p \in SeqsUpTo(NearThresholds, MaxLen)}
  /\ reqs = [r \in Slots |-> Idle]
  /\ gen = NotGenerated
  /\ ui = NoSession

SpecRound == InitRound /\ [][Next]_vars

\* the API serving one request at a time while the generator runs on one
\* base table with one vector of draws
SeedInputs ==
  {[df_base |-> <<ReadingPool[1], ReadingPool[2]>>,
    draws |-> [st \in DOMAIN lathe_ids |-> <<DrawPool[1], DrawPool[2]>>]]}

InitSeed ==
  /\ db \in PriorStores
  /\ reqs = [r \in Slots |-> Idle]
  /\ gen = NotGenerated
  /\ ui = NoSession

NextSeed == Generator(SeedInputs) \/ Handle(1)

SpecSeed == InitSeed /\ [][NextSeed]_vars

----------------------------------------------------------------------------
(* streamlit_frontend.py: the session state and the navigation buttons *)

Some(x) == [value |-> x]

\* widgets: the View Details button of a card and the two Back buttons
NoClick == <<"none", 0>>
ViewDetailsButton(lathe_id) == <<"btn", lathe_id>>
BackToDashboardButton == <<"back_to_dashboard", 0>>
BackButton == <<"back", 0>>

\* the two initialisations at the top of main
WithDefaults(session) ==
  [k \in DOMAIN session \cup {"view", "selected_lathe"} |->
     IF k \in DOMAIN session THEN session[k]
     ELSE IF k = "view" THEN "dashboard" ELSE None]

\* what get_all_lathes() of the frontend may return, as the ids of the
\* summaries: [] when the request or the decoding of its answer raises
FetchedLathes ==
  {<< >>} \cup
  (IF AllLathesResponse(db).status = 200
   THEN {[k \in 1..Len(AllLathesResponse(db).body) |->
            AllLathesResponse(db).body[k].lathe_id]}
   ELSE {})

\* what get_lathe_details(lathe_id) of the frontend may return: None when the
\* request raises, else the decoded JSON, the error body of a 404 or 422
\* included
FetchedDetails(selected) ==
  {None} \cup
  (IF selected = None THEN {HTTPException(422, "unprocessable")}
   ELSE IF selected.value \notin list_collection_names(db)
        THEN {HTTPException(404, "not found")}
   ELSE LET response == LatheDetailsResponse(selected.value,
                                             Fetch(db, "details", selected.value))
        IN  IF response.status = 500 THEN {} ELSE {response})

\* a Back button that also forgets the selection
Back_clearing(session) ==
  [session EXCEPT !["view"] = "dashboard", !["selected_lathe"] = None]

\* the body of either Back button
Back(session) == [session EXCEPT !["view"] = "dashboard"]

\* show_dashboard(): the cards are rendered in order; the button that was
\* clicked sets the selection and reruns the script, leaving the later cards
\* unrendered
show_dashboard(session, click) ==
  \E lathes \in FetchedLathes :
    LET ids == {lathes[k] : k \in 1..Len(lathes)}
        hit == {k \in 1..Len(lathes) : click = ViewDetailsButton(lathes[k])}
    IN  IF hit = {}
        THEN ui' = [session |-> session, page |-> "dashboard",
                    buttons |-> {ViewDetailsButton(id) : id \in ids},
                    listed |-> ui.listed \cup ids, fetched |-> None]
        ELSE LET first == CHOOSE k \in hit : \A j \in hit : k <= j
             IN  ui' = [session |-> [session EXCEPT
                                       !["selected_lathe"] = Some(lathes[first]),
                                       !["view"] = "lathe_details"],
                        page |-> "rerun", buttons |-> {},
                        listed |-> ui.listed \cup {lathes[k] : k \in 1..first},
                        fetched |-> None]

\* "if not lathe_details": None is falsy, a decoded JSON object with a key
\* is truthy, whatever the status it came with
Falsy(lathe_details) == lathe_details = None

\* the page show_lathe_details leaves on display: the warning of its no-data
\* branch, the details, or the KeyError of lathe_details['name'] on an answer
\* that has no such field
DetailsPage(lathe_details) ==
  IF Falsy(lathe_details) THEN "no_data"
  ELSE IF lathe_details.status = 200 THEN "lathe_details"
  ELSE "key_error"

\* show_lathe_details(): either Back button is rendered before any field of
\* the answer is read
show_lathe_details(session, click) ==
  \E lathe_details \in FetchedDetails(session["selected_lathe"]) :
    LET button == IF Falsy(lathe_details) THEN BackToDashboardButton ELSE BackButton
    IN  IF click = button
        THEN ui' = [ui EXCEPT !.session = Back(session), !.page = "rerun",
                              !.buttons = {}, !.fetched = lathe_details]
        ELSE ui' = [ui EXCEPT !.session = session,
                              !.page = DetailsPage(lathe_details),
                              !.buttons = {button}, !.fetched = lathe_details]

\* one run of the script, started by the click of a widget or by a rerun
main(click) ==
  /\ LET session == WithDefaults(ui.session)
     IN  IF session["view"] = "dashboard" THEN show_dashboard(session, click)
         ELSE IF session["view"] = "lathe_details"
              THEN show_lathe_details(session, click)
         ELSE ui' = [ui EXCEPT !.session = session, !.page = "blank", !.buttons = {}]
  /\ UNCHANGED <<db, reqs, gen>>

\* the script runs without a click: the first run of a session, a rerun
rerun == main(NoClick)

\* the user clicks a button of the page on display
click_view_details ==
  \E id \in Lathes : ViewDetailsButton(id) \in ui.buttons /\ main(ViewDetailsButton(id))

click_back ==
  \E button \in {BackButton, BackToDashboardButton} :
    button \in ui.buttons /\ main(button)

InitUI ==
  /\ db \in PriorStores
  /\ reqs = [r \in Slots |-> Idle]
  /\ gen = NotGenerated
  /\ ui = NoSession

NextUI == rerun \/ click_view_details \/ click_back

SpecUI == InitUI /\ [][NextUI]_vars

\* the dashboard in use while the generator re-seeds the store
NextUISeed == NextUI \/ Generator(SeedInputs)

SpecUISeed == InitUI /\ [][NextUISeed]_vars

----------------------------------------------------------------------------
(* Properties *)

Done(r, op) == reqs[r].pc = "done" /\ reqs[r].op = op
Answered(r, op) == Done(r, op) /\ reqs[r].response.status = 200

\* the rows of window w that carry field f, and the total of f over them
PresentIdx(w, f) == {i \in 1..Len(w) : f \in DOMAIN w[i]}

RECURSIVE TotalIn(_, _, _, _, _)
TotalIn(w, f, I, lo, hi) ==
  IF lo > hi THEN 0
  ELSE IF lo = hi THEN (IF lo \in I THEN w[lo][f] ELSE 0)
  ELSE TotalIn(w, f, I, lo, (lo + hi) \div 2)
         + TotalIn(w, f, I, (lo + hi) \div 2 + 1, hi)

\* the total of field f over the rows of w at the positions I
TotalOver(w, f, I) == TotalIn(w, f, I, 1, Len(w))

Total(w, f) == TotalOver(w, f, PresentIdx(w, f))

\* x is the rational total/n rounded to a multiple of unit hundredths
IsRounded(x, total, n, unit) ==
  /\ x % unit = 0
  /\ 2 * (x * n - total) <= unit * n
  /\ 2 * (total - x * n) <= unit * n

\* st is the bucket of the mean total/n: Operational iff mean >= 80,
\* Warning iff 60 <= mean < 80, Failure iff mean < 60
ClassifiedAs(st, total, n) ==
  /\ st \in {"Operational", "Warning", "Failure"}
  /\ st = "Operational" <=> total >= 80 * Scale * n
  /\ st = "Warning" <=> (60 * Scale * n <= total /\ total < 80 * Scale * n)
  /\ st = "Failure" <=> total < 60 * Scale * n

Healths(w) == [i \in 1..Len(w) |-> w[i]["Health score"]]

\* C1: for every non-empty window, the status in the summary list and in the
\* detail is the classifier applied to the mean of the window's health
\* scores, 80 and 60 belonging to the higher bucket.
C1_StatusIsBucketOfMean ==
  \A r \in Slots :
    /\ Answered(r, "details") =>
         /\ reqs[r].data # << >>
         /\ ClassifiedAs(reqs[r].response.body.status,
                         Total(reqs[r].data, "Health score"), Len(reqs[r].data))
    /\ Answered(r, "all_lathes") =>
         \A k \in 1..Len(reqs[r].response.body) :
           LET e == reqs[r].response.body[k]
               w == SummaryWindow(db, e.lathe_id)
           IN  w # << >> /\ ClassifiedAs(e.status, Total(w, "Health score"), Len(w))

\* health scores [90, 70, 50] have mean 70 and are answered with Warning
C1_Witness ==
  \E r \in Slots :
    /\ Answered(r, "details")
    /\ Healths(reqs[r].data) = <<90 * Scale, 70 * Scale, 50 * Scale>>
    /\ reqs[r].response.body.status = "Warning"

EmptyCollection(id) == id \in DOMAIN db /\ db[id] = << >>

\* C2: a collection that exists but yields zero records is a no-data outcome:
\* details and sensor data answer 404 without a body, and the summary list
\* has no entry for that lathe.
C2_EmptyWindowIsNoData ==
  \A r \in Slots :
    /\ \A op \in {"details", "sensor_data"} :
         (Done(r, op) /\ EmptyCollection(reqs[r].lathe_id)) =>
            /\ reqs[r].response.status = 404
            /\ "body" \notin DOMAIN reqs[r].response
    /\ Done(r, "all_lathes") =>
         /\ reqs[r].response.status = 200
         /\ \A k \in 1..Len(reqs[r].response.body) :
              ~EmptyCollection(reqs[r].response.body[k].lathe_id)

C2_Witness ==
  \E r \in Slots :
    /\ Done(r, "details")
    /\ EmptyCollection(reqs[r].lathe_id)
    /\ reqs[r].response.status = 404

\* C3 as stated: the product breakdown of a lathe whose record set is empty
\* is answered with three empty mappings and is not an error.
C3_EmptyBreakdownIsEmptyMappings ==
  \A r \in Slots :
    (Done(r, "product_analysis") /\ EmptyCollection(reqs[r].lathe_id)) =>
       /\ reqs[r].response.status = 200
       /\ reqs[r].response.body.product_types = << >>
       /\ reqs[r].response.body.product_quality = << >>
       /\ reqs[r].response.body.params_by_type = << >>

\* C3, amended: the product breakdown of a lathe whose collection exists but
\* holds no records ends in the 404 no-data outcome and returns no mappings.
C3_EmptyBreakdownIsNotFound ==
  \A r \in Slots :
    (Done(r, "product_analysis") /\ EmptyCollection(reqs[r].lathe_id)) =>
       /\ reqs[r].response.status = 404
       /\ "body" \notin DOMAIN reqs[r].response

C3_Witness ==
  \E r \in Slots :
    /\ Done(r, "product_analysis")
    /\ EmptyCollection(reqs[r].lathe_id)
    /\ reqs[r].response = HTTPException(404, "No data found")

PerLatheOps == {"details", "sensor_data", "product_analysis"}

Reorderings(w) ==
  {[i \in 1..Len(w) |-> w[p[i]]] : p \in Permutations(1..Len(w))}

\* C5 as stated: permuting the records of a non-empty window changes neither
\* the mean health score, mean uptime and status of summary and detail nor
\* any channel's min, max and avg of the sensor statistics.
C5_OrderInsensitive ==
  \A r \in Slots :
    /\ Answered(r, "details") =>
         \A p \in Reorderings(reqs[r].data) :
           LET d == LatheDetails(reqs[r].lathe_id, p)
               b == reqs[r].response.body
           IN  /\ d.health_score = b.health_score
               /\ d.uptime = b.uptime
               /\ d.status = b.status
    /\ Answered(r, "all_lathes") =>
         \A k \in 1..Len(reqs[r].response.body) :
           LET e == reqs[r].response.body[k]
           IN  \A p \in Reorderings(SummaryWindow(db, e.lathe_id)) :
                 LatheSummary(e.lathe_id, p) = e
    /\ Answered(r, "sensor_data") =>
         \A p \in Reorderings(reqs[r].data) :
           LatheSensorData(reqs[r].lathe_id, p).stats = reqs[r].response.body.stats

\* C6: the uptime of summary and detail is 0 when no record of the window has
\* an uptime, and otherwise the mean over the records that have one, rounded
\* to one decimal; records without it are not counted as 0.
UptimeIsMeanOfPresent(uptime, w) ==
  IF PresentIdx(w, "Uptime") = {} THEN uptime = 0
  ELSE IsRounded(uptime, Total(w, "Uptime"), Cardinality(PresentIdx(w, "Uptime")), 10)

C6_UptimeMean ==
  \A r \in Slots :
    /\ Answered(r, "details") =>
         UptimeIsMeanOfPresent(reqs[r].response.body.uptime, reqs[r].data)
    /\ Answered(r, "all_lathes") =>
         \A k \in 1..Len(reqs[r].response.body) :
           UptimeIsMeanOfPresent(reqs[r].response.body[k].uptime,
                                 SummaryWindow(db, reqs[r].response.body[k].lathe_id))

\* two records, one without uptime and one with uptime 80, are answered with 80
C6_Witness ==
  \E r \in Slots :
    /\ Answered(r, "details")
    /\ Len(reqs[r].data) = 2
    /\ \E i \in 1..2 : /\ "Uptime" \notin DOMAIN reqs[r].data[i]
                       /\ "Uptime" \in DOMAIN reqs[r].data[3 - i]
                       /\ reqs[r].data[3 - i]["Uptime"] = 80 * Scale
    /\ reqs[r].response.body.uptime = 80 * Scale

HasVibration(w) == PresentIdx(w, "Vibration") # {}

\* C7: in the sensor statistics the key vibration is in sensor_data and in
\* stats exactly when some record of the window has a vibration; when it is
\* there it has one value per record and a min, a max and an avg.
C7_SensorVibrationKey ==
  \A r \in Slots :
    Answered(r, "sensor_data") =>
      LET b == reqs[r].response.body
      IN  /\ "vibration" \in DOMAIN b.sensor_data <=> HasVibration(reqs[r].data)
          /\ "vibration" \in DOMAIN b.stats <=> HasVibration(reqs[r].data)
          /\ HasVibration(reqs[r].data) =>
               /\ Len(b.sensor_data["vibration"]) = Len(reqs[r].data)
               /\ DOMAIN b.stats["vibration"] = {"min", "max", "avg"}

C7_Witness ==
  \E r \in Slots :
    /\ Answered(r, "sensor_data")
    /\ ~HasVibration(reqs[r].data)
    /\ "vibration" \notin DOMAIN reqs[r].response.body.stats
    /\ "torque" \in DOMAIN reqs[r].response.body.stats

\* C8 as stated: when no record of the window has a vibration, the detail
\* has no vibration field at all.
C8_DetailVibrationOmitted ==
  \A r \in Slots :
    (Answered(r, "details") /\ ~HasVibration(reqs[r].data)) =>
       "vibration" \notin DOMAIN reqs[r].response.body

\* C8, amended: when no record of the window has a vibration, the detail
\* carries the vibration field with the value None, never zero or another
\* number; otherwise it is the mean over the records that have one, to one
\* decimal.
C8_DetailVibrationIsNone ==
  \A r \in Slots :
    Answered(r, "details") =>
      LET v == reqs[r].response.body.vibration
          w == reqs[r].data
      IN  IF HasVibration(w)
          THEN /\ v # None
               /\ IsRounded(v.v, Total(w, "Vibration"),
                            Cardinality(PresentIdx(w, "Vibration")), 10)
          ELSE v = None

C8_Witness ==
  \E r \in Slots :
    /\ Answered(r, "details")
    /\ ~HasVibration(reqs[r].data)
    /\ reqs[r].response.body.vibration = None

\* C9: for every product type t among all stored records of the lathe, the
\* product analysis reports count = number of records of type t,
\* failure_rate = 100 * failed records of type t / count and
\* avg_health_score = their mean health score, each to two decimals; no
\* other type is reported.
C9_ProductQuality ==
  \A r \in Slots :
    Answered(r, "product_analysis") =>
      LET w == db[reqs[r].lathe_id]
          b == reqs[r].response.body
          types == {w[i]["Type"] : i \in 1..Len(w)}
      IN  /\ DOMAIN b.product_types = types
          /\ DOMAIN b.product_quality = types
          /\ \A t \in types :
               LET I == {i \in 1..Len(w) : w[i]["Type"] = t}
                   failed == {i \in I : w[i]["Failure"] = 1}
                   q == b.product_quality[t]
               IN  /\ b.product_types[t] = Cardinality(I)
                   /\ q.count = Cardinality(I)
                   /\ IsRounded(q.failure_rate,
                                100 * Scale * Cardinality(failed), Cardinality(I), 1)
                   /\ IsRounded(q.avg_health_score,
                                TotalOver(w, "Health score", I), Cardinality(I), 1)

\* a single failed record: count 1, failure rate 100, its own health score
C9_Witness ==
  \E r \in Slots :
    /\ Answered(r, "product_analysis")
    /\ Len(db[reqs[r].lathe_id]) = 1
    /\ LET rec == db[reqs[r].lathe_id][1]
           q == reqs[r].response.body.product_quality[rec["Type"]]
       IN  /\ rec["Failure"] = 1
           /\ q.count = 1
           /\ q.failure_rate = 100 * Scale
           /\ q.avg_health_score = rec["Health score"]

\* C10: two requests for the same operation and lathe against the same store
\* get the same response, whatever ran before or between their steps.
C10_SameRequestSameResponse ==
  \A r1, r2 \in Slots :
    (/\ reqs[r1].pc = "done" /\ reqs[r2].pc = "done"
     /\ reqs[r1].op = reqs[r2].op
     /\ reqs[r1].lathe_id = reqs[r2].lathe_id)
    => reqs[r1].response = reqs[r2].response

C10_Witness ==
  \E r1, r2 \in Slots :
    /\ r1 # r2
    /\ Answered(r1, "details") /\ Answered(r2, "details")
    /\ reqs[r1].lathe_id = reqs[r2].lathe_id
    /\ reqs[r1].response = reqs[r2].response

\* C11: no step of a read request changes the record store, whether it ends
\* in an answer or in not-found: the collections and their records stay as
\* they were.
C11_ReadsLeaveStore == [][db' = db]_vars

C11_Witness ==
  \E r \in Slots :
    /\ Done(r, "product_analysis")
    /\ reqs[r].lathe_id \notin DOMAIN db
    /\ reqs[r].response.status = 404

Min(a, b) == IF a < b THEN a ELSE b

\* the positions of the n documents with the greatest timestamps
Top(docs, n) ==
  {i \in 1..Len(docs) :
     Cardinality({j \in 1..Len(docs) :
                    docs[j]["timestamp"] > docs[i]["timestamp"]}) < n}

\* C12: the aggregates are computed over exactly the min(n, bound) records
\* with the greatest timestamps, bound being 50 for the summary list and 100
\* for details and sensor data; older records have no part in the result.
C12_MostRecentWindow ==
  \A r \in Slots :
    /\ \A op \in {"details", "sensor_data"} :
         Answered(r, op) =>
           LET docs == db[reqs[r].lathe_id]
               top == Top(docs, DetailLimit)
           IN  /\ Len(reqs[r].data) = Min(Len(docs), DetailLimit)
               /\ {reqs[r].data[k] : k \in 1..Len(reqs[r].data)} = {docs[i] : i \in top}
    /\ Answered(r, "details") =>
         LET docs == db[reqs[r].lathe_id]
             top == Top(docs, DetailLimit)
             b == reqs[r].response.body
         IN  /\ IsRounded(b.health_score, TotalOver(docs, "Health score", top),
                          Cardinality(top), 10)
             /\ IsRounded(b.torque, TotalOver(docs, "Torque", top), Cardinality(top), 10)
             /\ ClassifiedAs(b.status, TotalOver(docs, "Health score", top),
                             Cardinality(top))
    /\ Answered(r, "all_lathes") =>
         \A k \in 1..Len(reqs[r].response.body) :
           LET e == reqs[r].response.body[k]
               docs == db[e.lathe_id]
               top == Top(docs, SummaryLimit)
           IN  /\ Cardinality(top) = Min(Len(docs), SummaryLimit)
               /\ IsRounded(e.health_score, TotalOver(docs, "Health score", top),
                            Cardinality(top), 10)
               /\ ClassifiedAs(e.status, TotalOver(docs, "Health score", top),
                               Cardinality(top))

\* a detail over 100 records of a collection that holds an older, different one
C12_Witness ==
  \E r \in Slots :
    /\ Answered(r, "details")
    /\ Len(db[reqs[r].lathe_id]) > DetailLimit
    /\ Len(reqs[r].data) = DetailLimit
    /\ \E i \in 1..Len(db[reqs[r].lathe_id]) :
         /\ db[reqs[r].lathe_id][i]["timestamp"] = 1
         /\ db[reqs[r].lathe_id][i]["Health score"] # reqs[r].data[1]["Health score"]

TypesOf(data) == {data[i]["Type"] : i \in 1..Len(data)}

FirstIndex(data, t) ==
  CHOOSE i \in 1..Len(data) :
    data[i]["Type"] = t /\ \A j \in 1..(i - 1) : data[j]["Type"] # t

CountOf(data, t) == Cardinality({i \in 1..Len(data) : data[i]["Type"] = t})

\* keys lists each product type of data once
ListsTypes(keys, data) ==
  /\ {keys[p] : p \in 1..Len(keys)} = TypesOf(data)
  /\ Len(keys) = Cardinality(TypesOf(data))

InDiscoveryOrder(keys, data) ==
  /\ ListsTypes(keys, data)
  /\ \A p, q \in 1..Len(keys) :
       p < q => FirstIndex(data, keys[p]) < FirstIndex(data, keys[q])

\* the product types in dictionary order
Alphabet == <<"H", "L", "M">>

InAlphabeticalOrder(keys, data) ==
  keys = SelectSeq(Alphabet, LAMBDA t : t \in TypesOf(data))

ByDescendingCount(keys, data) ==
  /\ ListsTypes(keys, data)
  /\ \A p, q \in 1..Len(keys) :
       p < q => CountOf(data, keys[p]) >= CountOf(data, keys[q])

\* C13 as stated: the keys of product_types, product_quality and
\* params_by_type all iterate in the order in which the product types are
\* first encountered in the records (or all in alphabetical order), whatever
\* the number of records of each type.
C13_KeysInDiscoveryOrder ==
  \A r \in Slots :
    Answered(r, "product_analysis") =>
      LET b == reqs[r].response.body
          data == reqs[r].data
      IN  \/ /\ InDiscoveryOrder(b.product_types_order, data)
             /\ InDiscoveryOrder(b.product_quality_order, data)
             /\ InDiscoveryOrder(b.params_by_type_order, data)
          \/ /\ InAlphabeticalOrder(b.product_types_order, data)
             /\ InAlphabeticalOrder(b.product_quality_order, data)
             /\ InAlphabeticalOrder(b.params_by_type_order, data)

\* C13, amended: the keys of product_quality and params_by_type iterate in
\* the order in which the product types are first encountered in the records;
\* the keys of product_types iterate by descending record count, a type with
\* more records coming before a type with fewer.
C13_KeyOrders ==
  \A r \in Slots :
    Answered(r, "product_analysis") =>
      LET b == reqs[r].response.body
          data == reqs[r].data
      IN  /\ InDiscoveryOrder(b.product_quality_order, data)
          /\ InDiscoveryOrder(b.params_by_type_order, data)
          /\ ByDescendingCount(b.product_types_order, data)
          /\ \A p, q \in 1..Len(b.product_types_order) :
               CountOf(data, b.product_types_order[p])
                 > CountOf(data, b.product_types_order[q]) => p < q

\* a breakdown whose first-encountered type is the rarer one
C13_Witness ==
  \E r \in Slots :
    /\ Answered(r, "product_analysis")
    /\ Len(reqs[r].response.body.product_types_order) = 2
    /\ reqs[r].response.body.product_types_order
         # reqs[r].response.body.product_quality_order
    /\ CountOf(reqs[r].data, reqs[r].data[1]["Type"]) = 1

GeneratedRecords ==
  UNION {{gen.datasets[st][i] : i \in 1..Len(gen.datasets[st])} :
           st \in DOMAIN gen.datasets}

\* C14: every record that enrich produces has its Health score, the weighted
\* sum of the four clipped sub-scores scaled by 100, in [0, 100] and its
\* Uptime in [0, 100], whatever the readings and the random draws.
C14_EnrichedRanges ==
  \A rec \in GeneratedRecords :
    /\ 0 <= rec["Health score"] /\ rec["Health score"] <= 100 * Scale
    /\ 0 <= rec["Uptime"] /\ rec["Uptime"] <= 100 * Scale

\* datasets with a reading outside the nominal range (a negative tool wear,
\* an air temperature more than temp_shift away from 300) and a failed row
C14_Witness ==
  /\ gen.pc = "generated"
  /\ \E rec \in GeneratedRecords : rec["Tool wear"] < 0
  /\ \E rec \in GeneratedRecords :
       /\ rec["Air temperature"] > 310 * Scale
       /\ rec["Failure"] = 1
       /\ rec["Uptime"] < 90 * Scale

StateOf(lathe_id) == CHOOSE st \in DOMAIN lathe_ids : lathe_ids[st] = lathe_id

SeededIds == {lathe_ids[st] : st \in DOMAIN lathe_ids}

\* C15: when upload_to_mongodb has completed, each collection of a dataset
\* holds exactly the records of that dataset, whatever it held before; the
\* store after a second upload of the same datasets is the store after the
\* first.
C15_UploadReplaces ==
  gen.pc = "uploaded" =>
    /\ \A id \in SeededIds :
         id \in DOMAIN db /\ db[id] = gen.datasets[StateOf(id)]
    /\ db = [id \in SeededIds |-> gen.datasets[StateOf(id)]]

\* the upload has completed a second time, over the collections of the first
C15_Witness ==
  /\ gen.pc = "uploaded"
  /\ gen.runs > 1
  /\ \A id \in SeededIds : Len(db[id]) > 1

\* the claimed reading of a returned pair: health_score >= 80 iff
\* Operational, in [60, 80) iff Warning, < 60 iff Failure
MatchesRounded(status, health_score) ==
  /\ status = "Operational" <=> health_score >= OperationalMin * Scale
  /\ status = "Warning" <=> (WarningMin * Scale <= health_score
                              /\ health_score < OperationalMin * Scale)
  /\ status = "Failure" <=> health_score < WarningMin * Scale

\* what the rounding of the mean leaves of it: a mean just below a threshold
\* is returned as the threshold itself, under the lower status
MatchesUpToRounding(status, health_score) ==
  /\ status = "Operational" => health_score >= OperationalMin * Scale
  /\ status = "Warning" => (WarningMin * Scale <= health_score
                             /\ health_score <= OperationalMin * Scale)
  /\ status = "Failure" => health_score <= WarningMin * Scale
  /\ health_score > OperationalMin * Scale => status = "Operational"
  /\ health_score < WarningMin * Scale => status = "Failure"

\* C16 as stated: the returned health_score, the mean rounded to one
\* decimal, is >= 80 iff the returned status is Operational, in [60, 80) iff
\* it is Warning and < 60 iff it is Failure, in summaries and in details.
C16_RoundedScoreMatchesStatus ==
  \A r \in Slots :
    /\ Answered(r, "details") =>
         MatchesRounded(reqs[r].response.body.status,
                        reqs[r].response.body.health_score)
    /\ Answered(r, "all_lathes") =>
         \A k \in 1..Len(reqs[r].response.body) :
           MatchesRounded(reqs[r].response.body[k].status,
                          reqs[r].response.body[k].health_score)

\* C16, amended: the returned health_score is >= 80 when the status is
\* Operational, in [60, 80] when it is Warning and <= 60 when it is Failure; a
\* returned health_score above 80 means Operational and one below 60 means
\* Failure, while a returned 80.0 or 60.0 goes with either adjacent status.
C16_ScoreMatchesStatusUpToRounding ==
  \A r \in Slots :
    /\ Answered(r, "details") =>
         MatchesUpToRounding(reqs[r].response.body.status,
                             reqs[r].response.body.health_score)
    /\ Answered(r, "all_lathes") =>
         \A k \in 1..Len(reqs[r].response.body) :
           MatchesUpToRounding(reqs[r].response.body[k].status,
                               reqs[r].response.body[k].health_score)

\* a mean of 79.96 returned as 80.0 with status Warning
C16_Witness ==
  \E r \in Slots :
    /\ Answered(r, "details")
    /\ Healths(reqs[r].data) = <<80 * Scale - 4>>
    /\ reqs[r].response.body.health_score = 80 * Scale
    /\ reqs[r].response.body.status = "Warning"

\* the status GET /lathes/{lathe_id} returns on the present store
DetailStatus(lathe_id) ==
  LatheDetailsResponse(lathe_id, Fetch(db, "details", lathe_id)).body.status

\* the summaries GET /lathes returns on the present store
Summaries == AllLathesResponse(db).body

SameStatusInBothViews(r) ==
  /\ Answered(r, "details") =>
       \A k \in 1..Len(Summaries) :
         Summaries[k].lathe_id = reqs[r].lathe_id =>
           Summaries[k].status = reqs[r].response.body.status
  /\ Answered(r, "all_lathes") =>
       \A k \in 1..Len(reqs[r].response.body) :
         reqs[r].response.body[k].status
           = DetailStatus(reqs[r].response.body[k].lathe_id)

\* C17 as stated: on fixed store contents the status of a machine in the
\* summary list equals the status in its detail, for any number of stored
\* records.
C17_SummaryStatusEqualsDetail ==
  \A r \in Slots : SameStatusInBothViews(r)

\* C17, amended: on fixed store contents the status of a machine in the
\* summary list equals the status in its detail when the machine has at most
\* 50 stored records, the summary window; with more records the summary
\* classifies the 50 most recent and the detail the 100 most recent.
C17_SameStatusWithinSummaryWindow ==
  \A r \in Slots :
    (\A id \in DOMAIN db : Len(db[id]) <= SummaryLimit) => SameStatusInBothViews(r)

\* a detail of 50 records of two payloads, listed with the same status
C17_Witness ==
  \E r \in Slots :
    /\ Answered(r, "details")
    /\ Len(db[reqs[r].lathe_id]) = SummaryLimit
    /\ \E i \in 1..SummaryLimit :
         reqs[r].data[i]["Health score"] # reqs[r].data[1]["Health score"]
    /\ \E k \in 1..Len(Summaries) :
         /\ Summaries[k].lathe_id = reqs[r].lathe_id
         /\ Summaries[k].status = reqs[r].response.body.status

Completes(r) == reqs[r].pc # "done" /\ reqs'[r].pc = "done"

\* C18: the four dataset states map to four distinct machine ids, which are
\* the ids 1..4 the backend scans; once generate_data and upload_to_mongodb
\* have completed, from any prior store, a summary list then requested has
\* exactly four entries, of ids 1, 2, 3, 4 in this order, and a detail then
\* requested for an id in 1..4 does not end in not-found.
C18_SeededStoreServesFour ==
  [][/\ SeededIds = Lathes
     /\ Cardinality(SeededIds) = Len(StateNames)
     /\ (gen.pc = "uploaded" /\ gen'.pc = "uploaded") =>
          \A r \in Slots :
            Completes(r) =>
              /\ reqs'[r].op = "all_lathes" =>
                   /\ reqs'[r].response.status = 200
                   /\ Len(reqs'[r].response.body) = NumLathes
                   /\ \A k \in 1..NumLathes : reqs'[r].response.body[k].lathe_id = k
              /\ (reqs'[r].op = "details" /\ reqs'[r].lathe_id \in Lathes) =>
                   reqs'[r].response.status = 200]_vars

\* the summary list of a store that the upload has filled
C18_Witness ==
  \E r \in Slots :
    /\ gen.pc = "uploaded"
    /\ Answered(r, "all_lathes")
    /\ reqs[r].response = AllLathesResponse(db)
    /\ Len(reqs[r].response.body) = NumLathes
    /\ \A id \in Lathes : db[id] = gen.datasets[StateOf(id)]

\* records of one generation: all of the prior store or all of the datasets,
\* none of them twice
SingleGeneration(data) ==
  /\ \/ \A i \in 1..Len(data) : "LatheID" \in DOMAIN data[i]
     \/ \A i \in 1..Len(data) : "LatheID" \notin DOMAIN data[i]
  /\ \A i, j \in 1..Len(data) : data[i]["timestamp"] = data[j]["timestamp"] => i = j

ViewIn(session) == WithDefaults(session)["view"]
SelectedIn(session) == WithDefaults(session)["selected_lathe"]

\* view is dashboard or lathe_details, and on lathe_details the selection is
\* the id of a lathe that was listed
SessionInvariant(u) ==
  /\ ViewIn(u.session) \in {"dashboard", "lathe_details"}
  /\ ViewIn(u.session) = "lathe_details" =>
       /\ SelectedIn(u.session) # None
       /\ SelectedIn(u.session).value \in u.listed

\* a run in which a Back button fired
BackFired == ViewIn(ui.session) = "lathe_details" /\ ui'.page = "rerun"

\* C20: from an empty session, after any reruns and clicks, view is dashboard
\* or lathe_details; when it is lathe_details, selected_lathe is not None and
\* is the id of a lathe listed on the dashboard; a Back button sets view to
\* dashboard and changes nothing else of the session state.
C20_SessionNavigation ==
  [][/\ SessionInvariant(ui)
     /\ SessionInvariant(ui')
     /\ BackFired => ui'.session = [WithDefaults(ui.session) EXCEPT !["view"] = "dashboard"]
     /\ BackFired => SelectedIn(ui'.session) = SelectedIn(ui.session)]_vars

\* back on the dashboard after a visit of a lathe's details
C20_Witness ==
  /\ ui.page = "dashboard"
  /\ ViewIn(ui.session) = "dashboard"
  /\ SelectedIn(ui.session) # None
  /\ SelectedIn(ui.session).value \in ui.listed

\* the detail request of the last run was answered with a 404 and its body
NotFoundFetched ==
  /\ ViewIn(ui.session) = "lathe_details" \/ ui.page = "rerun"
  /\ ui.fetched # None
  /\ ui.fetched.status = 404

\* C21: when the backend answers the detail request of the selected lathe
\* with a 404 and an error body, show_lathe_details takes its no-data branch:
\* the page is the 'No data available' warning with the Back to Dashboard
\* button, and no field of the answer, such as name or status, is read.
C21_NotFoundTakesNoDataBranch ==
  (NotFoundFetched /\ ui.page # "rerun") =>
    /\ ui.page = "no_data"
    /\ ui.buttons = {BackToDashboardButton}

====
